---- MODULE Spec2Model ----
(***************************************************************************)
(* A model of the unscented Kalman filter of src/src/ukf.cpp (class UKF).  *)
(*                                                                         *)
(* The state of the model is the state of one UKF object; the one action   *)
(* is ProcessMeasurement, taken once per measurement record.               *)
(*                                                                         *)
(* Reals.  The source computes in IEEE doubles.  The model computes in     *)
(* fixed point: a real r is the integer round(r * Scale), and every        *)
(* product and quotient is rounded to the nearest multiple of 1/Scale.     *)
(* The non-finite doubles (NaN, +Inf, -Inf) are one value, NaN, which      *)
(* every arithmetic operation propagates and every comparison answers      *)
(* false for, as IEEE comparisons with NaN do.  A magnitude beyond Big     *)
(* is held as non-finite too.                                              *)
(***************************************************************************)
EXTENDS Integers, Sequences, FiniteSets

----------------------------------------------------------------------------
(* Fixed-point doubles *)

\* One unit of the source's doubles, 1.0, and its square root.
HalfScale == 10 ^ 2

Scale == HalfScale * HalfScale

\* The non-finite doubles (0.0/0.0, x/0.0, sqrt of a negative number).
NaN == 0 - (2 ^ 30 + (2 ^ 30 - 1))

\* The largest magnitude of the fixed-point doubles, about 53687.0: a
\* result beyond it is held as non-finite.
Big == 2 ^ 29

Abs(a) == IF a < 0 THEN 0 - a ELSE a

\* v, or NaN when v is out of range.
InRange(v) == IF v > Big \/ v < 0 - Big THEN NaN ELSE v

\* n / d rounded to the nearest integer (d # 0), halves away from zero.
RoundDiv(n, d) ==
    LET an == Abs(n)
        ad == Abs(d)
        q  == an \div ad
        r  == an % ad
        m  == IF r >= ad - r THEN q + 1 ELSE q
    IN  IF (n < 0) = (d < 0) THEN m ELSE 0 - m

\* a + b
FAdd(a, b) == IF a = NaN \/ b = NaN THEN NaN ELSE InRange(a + b)

\* a - b
FSub(a, b) == IF a = NaN \/ b = NaN THEN NaN ELSE InRange(a - b)

\* |a| * |b| from the integer parts qa, qb and the fractions ra, rb of the
\* two: no intermediate value exceeds the range of the integers.
MulParts(qa, ra, qb, rb) ==
    IF qa > 0 /\ qb > (Big \div Scale) \div qa THEN NaN
    ELSE InRange(qa * qb * Scale + qa * rb + ra * qb
                 + RoundDiv(ra * rb, Scale))

MulAbs(aa, ab) ==
    MulParts(aa \div Scale, aa % Scale, ab \div Scale, ab % Scale)

\* v with the sign of a * b
Signed(a, b, v) ==
    IF v = NaN THEN NaN ELSE IF (a < 0) = (b < 0) THEN v ELSE 0 - v

\* a * b
FMul(a, b) ==
    IF a = NaN \/ b = NaN THEN NaN ELSE Signed(a, b, MulAbs(Abs(a), Abs(b)))

\* |a| / |b| by long division, two decimal digits of the fraction at a
\* time, for 0 < ab < 2^24.
DivParts(q, t1, ab) ==
    IF q > Big \div Scale THEN NaN
    ELSE InRange(q * Scale + (t1 \div ab) * HalfScale
                 + RoundDiv((t1 % ab) * HalfScale, ab))

DivAbs(aa, ab) == DivParts(aa \div ab, (aa % ab) * HalfScale, ab)

\* a / b.  Division by zero gives a non-finite double.  A divisor of 2^24
\* or more is divided, with the dividend, by HalfScale first.
FDiv(a, b) ==
    IF a = NaN \/ b = NaN \/ b = 0 THEN NaN
    ELSE IF Abs(b) >= 2 ^ 24
    THEN Signed(a, b, DivAbs(RoundDiv(Abs(a), HalfScale),
                             RoundDiv(Abs(b), HalfScale)))
    ELSE Signed(a, b, DivAbs(Abs(a), Abs(b)))

\* a > b and a < b on doubles: false when either is NaN.
FGt(a, b) == a # NaN /\ b # NaN /\ a > b

FLt(a, b) == a # NaN /\ b # NaN /\ a < b

FLe(a, b) == a # NaN /\ b # NaN /\ a <= b

\* fabs
Fabs(a) == IF a = NaN THEN NaN ELSE Abs(a)

\* The integer square root of n >= 0, by bisection on [lo, hi].
RECURSIVE ISqrtIn(_, _, _)
ISqrtIn(n, lo, hi) ==
    IF lo >= hi THEN lo
    ELSE LET mid == (lo + hi + 1) \div 2
         IN  IF mid <= n \div mid THEN ISqrtIn(n, mid, hi)
             ELSE ISqrtIn(n, lo, mid - 1)

ISqrt(n) == IF n <= 0 THEN 0 ELSE ISqrtIn(n, 0, 46340)

\* sqrt: NaN for a negative argument.
FSqrt(a) ==
    IF a = NaN \/ a < 0 THEN NaN
    ELSE IF a < 200000 THEN ISqrt(a * Scale)
    ELSE IF a < 20000000 THEN ISqrt(a * HalfScale) * 10
    ELSE ISqrt(a) * HalfScale

\* M_PI, and the constants derived from it.
M_PI == 31416

TwoPi == 2 * M_PI

HalfPi == M_PI \div 2

\* sin(r) for r in [-pi/2, pi/2], with r2 = r * r:
\* r (1 - r2/6 (1 - r2/20 (1 - r2/42 (1 - r2/72)))).
SinHorner(r, r2) ==
    FMul(r, Scale - FMul(RoundDiv(r2, 6),
                Scale - FMul(RoundDiv(r2, 20),
                    Scale - FMul(RoundDiv(r2, 42),
                        Scale - RoundDiv(r2, 72)))))

SinSeries(r) == SinHorner(r, FMul(r, r))

\* sin: the argument is reduced to (-pi, pi], then folded to [-pi/2, pi/2].
FSin(a) ==
    IF a = NaN THEN NaN
    ELSE LET m == a % TwoPi
             r == IF m > M_PI THEN m - TwoPi ELSE m
             f == IF r > HalfPi THEN M_PI - r
                  ELSE IF r < 0 - HalfPi THEN 0 - M_PI - r
                  ELSE r
         IN  SinSeries(f)

\* cos(a) = sin(a + pi/2)
FCos(a) == IF a = NaN THEN NaN ELSE FSin(a + HalfPi)

\* atan(t) for t in [0, 1]: the argument is halved by
\* atan(t) = 2 atan(t / (1 + sqrt(1 + t^2))), then, with t2 = t * t,
\* t (1 - t2 (1/3 - t2 (1/5 - t2 (1/7 - t2/9)))).
AtanHalve(t) == FDiv(t, Scale + FSqrt(Scale + FMul(t, t)))

AtanHorner(t, t2) ==
    FMul(t, Scale - FMul(t2, RoundDiv(Scale, 3)
                - FMul(t2, RoundDiv(Scale, 5)
                    - FMul(t2, RoundDiv(Scale, 7) - RoundDiv(t2, 9)))))

AtanSeries(t) == AtanHorner(t, FMul(t, t))

AtanUnit(t) == 2 * AtanSeries(AtanHalve(t))

\* atan2(y, x), in (-pi, pi]; atan2(0, 0) = 0.
FAtan2(y, x) ==
    IF y = NaN \/ x = NaN THEN NaN
    ELSE IF x = 0 /\ y = 0 THEN 0
    ELSE LET ax == Abs(x)
             ay == Abs(y)
             a1 == IF ay <= ax THEN AtanUnit(FDiv(ay, ax))
                   ELSE HalfPi - AtanUnit(FDiv(ax, ay))
             a2 == IF x < 0 THEN M_PI - a1 ELSE a1
         IN  IF y < 0 THEN 0 - a2 ELSE a2

----------------------------------------------------------------------------
(* Vectors and matrices.  A VectorXd is a sequence; a MatrixXd of sigma    *)
(* points is the sequence of its columns; a square MatrixXd is the         *)
(* sequence of its rows.  The source's index i is the model's i + 1.       *)
(* Intermediate results are handed on as operator arguments.               *)

\* A sequence given as a function on 1..n, with its elements computed.
Vec(f) == f \o << >>

\* The sum of the doubles of a sequence.
RECURSIVE FSum(_)
FSum(s) == IF s = << >> THEN 0 ELSE FAdd(Head(s), FSum(Tail(s)))

\* u . v
Dot(u, v) == FSum(Vec([k \in 1..Len(u) |-> FMul(u[k], v[k])]))

\* u + v, u - v, c * u
VAdd(u, v) == Vec([k \in 1..Len(u) |-> FAdd(u[k], v[k])])

VSub(u, v) == Vec([k \in 1..Len(u) |-> FSub(u[k], v[k])])

VScale(c, u) == Vec([k \in 1..Len(u) |-> FMul(c, u[k])])

\* The column c of a matrix given by its rows, and the transpose.
Col(m, c) == Vec([r \in 1..Len(m) |-> m[r][c]])

Transpose(m) == Vec([c \in 1..Len(m[1]) |-> Col(m, c)])

\* a * b, for a given by its rows and b by its columns.
MatMulT(a, bt) ==
    Vec([r \in 1..Len(a) |-> Vec([c \in 1..Len(bt) |-> Dot(a[r], bt[c])])])

\* a * b, for matrices given by their rows.
MatMul(a, b) == MatMulT(a, Transpose(b))

\* a * v
MatVec(a, v) == Vec([r \in 1..Len(a) |-> Dot(a[r], v)])

\* a - b, for matrices given by their rows.
MatSub(a, b) == Vec([r \in 1..Len(a) |-> VSub(a[r], b[r])])

\* MatrixXd::Identity(n, n)
Identity(n) ==
    Vec([r \in 1..n |-> Vec([c \in 1..n |-> IF r = c THEN Scale ELSE 0])])

\* The angle normalization loops of the source:
\*   while (a > M_PI) a -= 2. * M_PI;  while (a < -M_PI) a += 2. * M_PI;
\* Both comparisons are false for NaN, which is left as it is.
\* The loops end with a minus, or plus, the least multiple of 2 pi that
\* brings it to the bound.
NormalizeDown(a) ==
    IF FGt(a, M_PI) THEN a - TwoPi * ((a - M_PI + TwoPi - 1) \div TwoPi)
    ELSE a

NormalizeUp(a) ==
    IF FLt(a, 0 - M_PI)
    THEN a + TwoPi * ((0 - M_PI - a + TwoPi - 1) \div TwoPi)
    ELSE a

NormalizeAngle(a) == NormalizeUp(NormalizeDown(a))

\* v with the angle normalization applied to its component k.
NormalizeAt(v, k) == [v EXCEPT ![k] = NormalizeAngle(v[k])]

----------------------------------------------------------------------------
(* The constants of UKF::UKF() *)

\* Process noise standard deviation longitudinal acceleration: 0.5
std_a_ == Scale \div 2

\* Process noise standard deviation yaw acceleration: 1.0
std_yawdd_ == Scale

\* Laser measurement noise standard deviations: 0.15, 0.15
std_laspx_ == (15 * Scale) \div 100

std_laspy_ == (15 * Scale) \div 100

\* Radar measurement noise standard deviations: 0.3, 0.03, 0.3
std_radr_ == (3 * Scale) \div 10

std_radphi_ == (3 * Scale) \div 100

std_radrd_ == (3 * Scale) \div 10

\* State dimension, augmented state dimension, spreading parameter.
n_x_ == 5

n_aug_ == 7

lambda_ == 3 - n_aug_

\* The number of sigma points, 2 * n_aug_ + 1.
NSigma == 2 * n_aug_ + 1

\* weights_: weights_(0) = lambda_ / (lambda_ + n_aug_) and the others
\* 0.5 / (n_aug_ + lambda_), kept exactly as WeightNum(i) / WeightDen.
WeightDen == 2 * (lambda_ + n_aug_)

WeightNum(i) == IF i = 1 THEN 2 * lambda_ ELSE 1

\* t / WeightDen
OverWeightDen(t) == IF t = NaN THEN NaN ELSE RoundDiv(t, WeightDen)

\* The terms are all below 2^23 in magnitude: their weighted sum is exact.
SmallTerms(f) == \A i \in 1..NSigma : f[i] # NaN /\ Abs(f[i]) < 2 ^ 23

\* sum over the sigma points i of weights_(i) * f[i]: the sum of the
\* numerators over WeightDen, or, for large terms, the sum of the quotients.
WeightedSum(f) ==
    IF SmallTerms(f)
    THEN OverWeightDen(FSum(Vec([i \in 1..NSigma |-> WeightNum(i) * f[i]])))
    ELSE FSum(Vec([i \in 1..NSigma |->
                     IF f[i] = NaN THEN NaN
                     ELSE InRange(WeightNum(i) * RoundDiv(f[i], WeightDen))]))

----------------------------------------------------------------------------
(* UKF::AugmentedSigmaPoints *)

\* Eigen's LLT (llt_inplace, unblocked), as P_aug.llt() runs it on its copy
\* of the matrix: for each k, x = m(k,k) - |m(k,0..k-1)|^2; if x <= 0 the
\* factorization stops and reports k (a NaN compares false and does not
\* stop it); otherwise m(k,k) = sqrt(x) and the column below it is
\* (m(i,k) - m(i,0..k-1) . m(k,0..k-1)) / sqrt(x).  info is 0 on success
\* and the model's k (1-based) of the failing pivot otherwise; the entries
\* not yet reached keep the values of the input matrix.
LltRow(m, i, k) == Vec([j \in 1..(k - 1) |-> m[i][j]])

\* m with column k written from the pivot's square root sx.
LltWrite(m, k, rowk, sx) ==
    Vec([i \in 1..Len(m) |->
           IF i = k THEN [m[i] EXCEPT ![k] = sx]
           ELSE IF i > k
           THEN [m[i] EXCEPT ![k] =
                   FDiv(FSub(m[i][k], Dot(LltRow(m, i, k), rowk)), sx)]
           ELSE m[i]])

RECURSIVE LltInPlace(_, _)
LltPivot(m, k, rowk, x) ==
    IF FLe(x, 0) THEN [mat |-> m, info |-> k]
    ELSE LltInPlace(LltWrite(m, k, rowk, FSqrt(x)), k + 1)

LltStep(m, k, rowk) == LltPivot(m, k, rowk, FSub(m[k][k], Dot(rowk, rowk)))

LltInPlace(m, k) ==
    IF k > Len(m) THEN [mat |-> m, info |-> 0]
    ELSE LltStep(m, k, LltRow(m, k, k))

\* LLT::matrixL(): the lower triangle of the factorization's matrix,
\* whether or not the factorization succeeded.
MatrixL(m) ==
    Vec([i \in 1..Len(m) |->
           Vec([j \in 1..Len(m) |-> IF j <= i THEN m[i][j] ELSE 0])])

\* The augmented mean and covariance of x and P.
AugmentedMean(x) == x \o <<0, 0>>

AugmentedCovariance(P) ==
    Vec([i \in 1..n_aug_ |-> Vec([j \in 1..n_aug_ |->
        IF i <= n_x_ /\ j <= n_x_ THEN P[i][j]
        ELSE IF i = 6 /\ j = 6 THEN FMul(std_a_, std_a_)
        ELSE IF i = 7 /\ j = 7 THEN FMul(std_yawdd_, std_yawdd_)
        ELSE 0])])

\* sqrt(lambda_ + n_aug_) * L.col(i), for every i.
SpreadColumns(L) ==
    Vec([i \in 1..n_aug_ |->
           VScale(FSqrt((lambda_ + n_aug_) * Scale), Col(L, i))])

\* Xsig_aug: x_aug, then x_aug + the spread columns, then x_aug - them.
SigmaColumns(x_aug, spread) ==
    Vec([i \in 1..NSigma |->
           IF i = 1 THEN x_aug
           ELSE IF i <= n_aug_ + 1 THEN VAdd(x_aug, spread[i - 1])
           ELSE VSub(x_aug, spread[i - 1 - n_aug_])])

SigmaPointsOf(x_aug, llt) ==
    [Xsig_aug |-> SigmaColumns(x_aug, SpreadColumns(MatrixL(llt.mat))),
     info     |-> llt.info]

\* The augmented sigma points of x and P (15 columns of 7), with the
\* factorization's info.
AugmentedSigmaPoints(x, P) ==
    SigmaPointsOf(AugmentedMean(x), LltInPlace(AugmentedCovariance(P), 1))

----------------------------------------------------------------------------
(* UKF::SigmaPointPrediction *)

\* The body of the loop for one augmented column, given sin(yaw), cos(yaw)
\* and yaw + yawd * delta_t.
Ctrv(p_x, p_y, v, yaw, yawd, nu_a, nu_yawdd, delta_t, sin_yaw, cos_yaw, yaw1) ==
    LET turning == FGt(Fabs(yawd), Scale \div 1000)
        px_k    == IF turning
                   THEN FAdd(p_x, FMul(FDiv(v, yawd),
                                       FSub(FSin(yaw1), sin_yaw)))
                   ELSE FAdd(p_x, FMul(FMul(v, delta_t), cos_yaw))
        py_k    == IF turning
                   THEN FAdd(p_y, FMul(FDiv(v, yawd),
                                       FSub(cos_yaw, FCos(yaw1))))
                   ELSE FAdd(p_y, FMul(FMul(v, delta_t), sin_yaw))
        half_a  == FMul(FMul(FMul(Scale \div 2, nu_a), delta_t), delta_t)
        half_y  == FMul(FMul(FMul(Scale \div 2, nu_yawdd), delta_t), delta_t)
    IN  <<FAdd(px_k, FMul(half_a, cos_yaw)),
          FAdd(py_k, FMul(half_a, sin_yaw)),
          FAdd(v, FMul(nu_a, delta_t)),
          FAdd(yaw1, half_y),
          FAdd(yawd, FMul(nu_yawdd, delta_t))>>

PredictColumn(c, delta_t) ==
    Ctrv(c[1], c[2], c[3], c[4], c[5], c[6], c[7], delta_t,
         FSin(c[4]), FCos(c[4]), FAdd(c[4], FMul(c[5], delta_t)))

\* The predicted sigma points (15 columns of 5) of the augmented ones.
SigmaPointPrediction(Xsig_aug, delta_t) ==
    Vec([i \in 1..NSigma |-> PredictColumn(Xsig_aug[i], delta_t)])

----------------------------------------------------------------------------
(* UKF::PredictMeanAndCovariance *)

\* sum over i of weights_(i) * d[i] * e[i]^T, for two sequences of columns.
WeightedOuter(d, e) ==
    Vec([a \in 1..Len(d[1]) |-> Vec([b \in 1..Len(e[1]) |->
        WeightedSum(Vec([i \in 1..NSigma |-> FMul(d[i][a], e[i][b])]))])])

\* The mean of the sigma points.
WeightedMean(Xsig) ==
    Vec([r \in 1..Len(Xsig[1]) |->
           WeightedSum(Vec([i \in 1..NSigma |-> Xsig[i][r]]))])

\* The state differences Xsig_pred_.col(i) - x with the yaw normalized.
StateDiffs(Xsig, x) ==
    Vec([i \in 1..NSigma |-> NormalizeAt(VSub(Xsig[i], x), 4)])

\* The covariance of the differences d.
Covariance(d) == WeightedOuter(d, d)

MeanAndCovariance(Xsig, x) == [x |-> x, P |-> Covariance(StateDiffs(Xsig, x))]

PredictMeanAndCovariance(Xsig) == MeanAndCovariance(Xsig, WeightedMean(Xsig))

----------------------------------------------------------------------------
(* MatrixXd::inverse() *)

\* Gauss-Jordan elimination with partial pivoting on the rows of [S | I],
\* from column c on.  A zero pivot divides by zero and leaves NaN.
PivotRow(m, c) ==
    CHOOSE r \in c..Len(m) : \A q \in c..Len(m) : Abs(m[r][c]) >= Abs(m[q][c])

SwapRows(m, c, p) == [m EXCEPT ![c] = m[p], ![p] = m[c]]

ScaledPivotRow(row, c) == Vec([k \in 1..Len(row) |-> FDiv(row[k], row[c])])

ClearColumn(m, c, piv) ==
    Vec([r \in 1..Len(m) |->
           IF r = c THEN piv ELSE VSub(m[r], VScale(m[r][c], piv))])

ReduceColumn(m, c) == ClearColumn(m, c, ScaledPivotRow(m[c], c))

RECURSIVE Eliminate(_, _)
Eliminate(m, c) ==
    IF c > Len(m) THEN m
    ELSE Eliminate(ReduceColumn(SwapRows(m, c, PivotRow(m, c)), c), c + 1)

RightHalf(m) ==
    Vec([r \in 1..Len(m) |-> Vec([c \in 1..Len(m) |-> m[r][Len(m) + c]])])

\* S.inverse(): non-finite entries when S is singular or holds a NaN.
Inverse(S) ==
    RightHalf(Eliminate(Vec([r \in 1..Len(S) |-> S[r] \o Identity(Len(S))[r]]),
                        1))

----------------------------------------------------------------------------
(* UKF::UpdateState *)

\* The residuals of the cross-correlation loop: Zsig.col(i) - z_pred with
\* the angle normalization applied to component 1 (the model's 2), for
\* every n_z.
CrossResiduals(Zsig, z_pred) ==
    Vec([i \in 1..NSigma |-> NormalizeAt(VSub(Zsig[i], z_pred), 2)])

\* The residual of the measurement: z - z_pred.
Innovation(z, z_pred) == VSub(z, z_pred)

\* K = Tc * S.inverse()
KalmanGain(Tc, S) == MatMul(Tc, Inverse(S))

\* x_ = x_ + K * z_diff;  P_ = P_ - K * S * K.transpose();  return z_diff
WriteState(x, P, S, K, z_diff, zd) ==
    [x        |-> VAdd(x, MatVec(K, z_diff)),
     P        |-> MatSub(P, MatMul(MatMul(K, S), Transpose(K))),
     z_diff   |-> z_diff,
     Tc_resid |-> zd]

GainAndWrite(x, P, S, zd, xd, z_diff) ==
    WriteState(x, P, S, KalmanGain(WeightedOuter(xd, zd), S), z_diff, zd)

\* x, P after the update, with the residuals used and the returned z_diff.
UpdateState(n_z, z, Zsig, S, z_pred, Xsig_pred, x, P) ==
    GainAndWrite(x, P, S, CrossResiduals(Zsig, z_pred),
                 StateDiffs(Xsig_pred, x), Innovation(z, z_pred))

----------------------------------------------------------------------------
(* UKF::UpdateLidar and UKF::UpdateRadar *)

\* The residuals of the loop that builds S for a laser: Zsig.col(i) - z_pred.
LidarResiduals(Zsig, z_pred) ==
    Vec([i \in 1..NSigma |-> VSub(Zsig[i], z_pred)])

\* The residuals of the loop that builds S for a radar: component 1 (the
\* model's 2) normalized.
RadarResiduals(Zsig, z_pred) ==
    Vec([i \in 1..NSigma |-> NormalizeAt(VSub(Zsig[i], z_pred), 2)])

\* m + diag(d)
AddDiagonal(m, d) ==
    Vec([r \in 1..Len(m) |-> Vec([c \in 1..Len(m) |->
        IF r = c THEN FAdd(m[r][c], d[r]) ELSE m[r][c]])])

\* What an update leaves: x, P, and the values it computed on the way.
Updated(us, Zsig, z_pred, resid, S) ==
    [x |-> us.x, P |-> us.P, z_diff |-> us.z_diff,
     Tc_resid |-> us.Tc_resid, S_resid |-> resid,
     Zsig |-> Zsig, z_pred |-> z_pred, S |-> S]

UpdateWith(n_z, z, Zsig, z_pred, resid, S, Xsig_pred, x, P) ==
    Updated(UpdateState(n_z, z, Zsig, S, z_pred, Xsig_pred, x, P),
            Zsig, z_pred, resid, S)

\* S = sum of weights_(i) * z_diff * z_diff^T + R, then UpdateState.
UpdateFrom(n_z, z, Zsig, z_pred, resid, R, Xsig_pred, x, P) ==
    UpdateWith(n_z, z, Zsig, z_pred, resid,
               AddDiagonal(WeightedOuter(resid, resid), R), Xsig_pred, x, P)

\* The noise covariances R of the two sensors (their diagonals).
LidarNoise == <<FMul(std_laspx_, std_laspx_), FMul(std_laspy_, std_laspy_)>>

RadarNoise ==
    <<FMul(std_radr_, std_radr_), FMul(std_radphi_, std_radphi_),
      FMul(std_radrd_, std_radrd_)>>

\* The sigma points in the measurement space of the laser.
LidarZsig(Xsig_pred) ==
    Vec([i \in 1..NSigma |-> <<Xsig_pred[i][1], Xsig_pred[i][2]>>])

LidarFrom(z, Zsig, z_pred, Xsig_pred, x, P) ==
    UpdateFrom(2, z, Zsig, z_pred, LidarResiduals(Zsig, z_pred), LidarNoise,
               Xsig_pred, x, P)

LidarOn(z, Zsig, Xsig_pred, x, P) ==
    LidarFrom(z, Zsig, WeightedMean(Zsig), Xsig_pred, x, P)

UpdateLidar(z, Xsig_pred, x, P) ==
    LidarOn(z, LidarZsig(Xsig_pred), Xsig_pred, x, P)

\* The measurement model of the radar for one predicted column.
RadarModel(p_x, p_y, v1, v2, r) ==
    <<r, FAtan2(p_y, p_x), FDiv(FAdd(FMul(p_x, v1), FMul(p_y, v2)), r)>>

RadarColumn(c) ==
    RadarModel(c[1], c[2], FMul(FCos(c[4]), c[3]), FMul(FSin(c[4]), c[3]),
               FSqrt(FAdd(FMul(c[1], c[1]), FMul(c[2], c[2]))))

\* The sigma points in the measurement space of the radar.
RadarZsig(Xsig_pred) == Vec([i \in 1..NSigma |-> RadarColumn(Xsig_pred[i])])

RadarFrom(z, Zsig, z_pred, Xsig_pred, x, P) ==
    UpdateFrom(3, z, Zsig, z_pred, RadarResiduals(Zsig, z_pred), RadarNoise,
               Xsig_pred, x, P)

RadarOn(z, Zsig, Xsig_pred, x, P) ==
    RadarFrom(z, Zsig, WeightedMean(Zsig), Xsig_pred, x, P)

UpdateRadar(z, Xsig_pred, x, P) ==
    RadarOn(z, RadarZsig(Xsig_pred), Xsig_pred, x, P)

----------------------------------------------------------------------------
(* UKF::Prediction *)

Predicted(Xsig, mc, info) ==
    [Xsig_pred |-> Xsig, x |-> mc.x, P |-> mc.P, info |-> info]

PredictionOf(Xsig, info) == Predicted(Xsig, PredictMeanAndCovariance(Xsig), info)

PredictionFrom(aug, delta_t) ==
    PredictionOf(SigmaPointPrediction(aug.Xsig_aug, delta_t), aug.info)

Prediction(x, P, delta_t) == PredictionFrom(AugmentedSigmaPoints(x, P), delta_t)

----------------------------------------------------------------------------
(* The UKF object and UKF::ProcessMeasurement *)

VARIABLES
    is_initialized_,      \* bool is_initialized_
    previous_timestamp_,  \* long long previous_timestamp_, in us
    use_laser_,           \* bool use_laser_
    use_radar_,           \* bool use_radar_
    x_,                   \* VectorXd x_ (5)
    P_,                   \* MatrixXd P_ (5 x 5)
    Xsig_pred_,           \* MatrixXd Xsig_pred_ (5 x 15)
    nrec,                 \* the number of records processed so far
    last                  \* what the last call of ProcessMeasurement did

vars == <<is_initialized_, previous_timestamp_, use_laser_, use_radar_,
          x_, P_, Xsig_pred_, nrec, last>>

\* A double of a vector or matrix that is allocated and not yet assigned
\* (VectorXd(5), MatrixXd(n_x_, 2 * n_aug_ + 1)).  Its value is never read:
\* Initialize assigns x_ and Prediction assigns Xsig_pred_ before any use.
Unset == NaN + 1

\* No value: the field of `last` of a step the call did not take.
None == << >>

\* The fields of the object that ProcessMeasurement reads and writes.
Self ==
    [is_initialized_     |-> is_initialized_,
     previous_timestamp_ |-> previous_timestamp_,
     x_                  |-> x_,
     P_                  |-> P_,
     Xsig_pred_          |-> Xsig_pred_]

\* UKF::Initialize: the state of the first record.
Initialize(meas_package) ==
    LET z == meas_package.raw_measurements_
    IN  IF meas_package.sensor_type_ = "RADAR"
        THEN LET rho     == z[1]
                 phi     == z[2]
                 rho_dot == z[3]
             IN  <<FMul(rho, FCos(phi)), FMul(rho, FSin(phi)),
                   FMul(rho_dot, FCos(phi)), FMul(rho_dot, FSin(phi)), 0>>
        ELSE <<z[1], z[2], 0, 0, 0>>

\* The object after Initialize(meas_package).
Initialized(self, meas_package) ==
    [self EXCEPT !.x_ = Initialize(meas_package),
                 !.previous_timestamp_ = meas_package.timestamp_,
                 !.is_initialized_ = TRUE]

\* What the call did when it only initialized.
InitializeOnly(self, meas_package) ==
    [self    |-> Initialized(self, meas_package),
     calls   |-> <<"Initialize">>,
     delta_t |-> None,
     pred    |-> None,
     upd     |-> None]

\* float dt = (meas_package.timestamp_ - previous_timestamp_) / 1000000.0
DeltaT(timestamp, previous_timestamp) ==
    RoundDiv(timestamp - previous_timestamp, 1000000 \div Scale)

\* A slip: line 123 left out, the stored timestamp stays the old one.
StaleTimestamp(self, meas_package) == self.previous_timestamp_

\* The timestamp stored by previous_timestamp_ = meas_package.timestamp_.
StoredTimestamp(self, meas_package) == meas_package.timestamp_

\* The update that the sensor type of the record selects.
UpdateName(meas_package) ==
    IF meas_package.sensor_type_ = "RADAR" THEN "UpdateRadar"
    ELSE "UpdateLidar"

\* The update of the record's sensor type.
UpdateOf(meas_package, pred) ==
    IF UpdateName(meas_package) = "UpdateRadar"
    THEN UpdateRadar(meas_package.raw_measurements_,
                     pred.Xsig_pred, pred.x, pred.P)
    ELSE UpdateLidar(meas_package.raw_measurements_,
                     pred.Xsig_pred, pred.x, pred.P)

\* What the call did when it predicted and updated.
PredictedAndUpdated(self, meas_package, delta_t, pred, upd) ==
    [self    |-> [self EXCEPT
                    !.previous_timestamp_ =
                        StoredTimestamp(self, meas_package),
                    !.Xsig_pred_ = pred.Xsig_pred,
                    !.x_ = upd.x,
                    !.P_ = upd.P],
     calls   |-> <<"Prediction", UpdateName(meas_package)>>,
     delta_t |-> delta_t,
     pred    |-> pred,
     upd     |-> upd]

UpdateAfter(self, meas_package, delta_t, pred) ==
    PredictedAndUpdated(self, meas_package, delta_t, pred,
                        UpdateOf(meas_package, pred))

PredictWith(self, meas_package, delta_t) ==
    UpdateAfter(self, meas_package, delta_t,
                Prediction(self.x_, self.P_, delta_t))

\* Lines 122-131: dt, the timestamp, Prediction(dt), then the update of the
\* record's sensor type on the sigma points Prediction left in Xsig_pred_.
PredictThenUpdate(self, meas_package) ==
    PredictWith(self, meas_package,
                DeltaT(meas_package.timestamp_, self.previous_timestamp_))

\* A slip: the return of line 119 left out, the first record is predicted
\* and updated with as well.
ProcessWithoutReturn(self, meas_package) ==
    IF ~self.is_initialized_
    THEN PredictThenUpdate(Initialized(self, meas_package), meas_package)
    ELSE PredictThenUpdate(self, meas_package)

\* UKF::ProcessMeasurement: the object after the call, and what it did.
Process(self, meas_package) ==
    IF ~self.is_initialized_ THEN InitializeOnly(self, meas_package)
    ELSE PredictThenUpdate(self, meas_package)

ProcessMeasurement(meas_package) ==
    \E out \in {Process(Self, meas_package)} :
        /\ is_initialized_' = out.self.is_initialized_
        /\ previous_timestamp_' = out.self.previous_timestamp_
        /\ x_' = out.self.x_
        /\ P_' = out.self.P_
        /\ Xsig_pred_' = out.self.Xsig_pred_
        /\ nrec' = nrec + 1
        /\ last' = [meas    |-> meas_package,
                    before  |-> Self,
                    calls   |-> out.calls,
                    delta_t |-> out.delta_t,
                    pred    |-> out.pred,
                    upd     |-> out.upd]
        /\ UNCHANGED <<use_laser_, use_radar_>>

\* UKF::UKF(): the object after construction, with the two sensor switches
\* as given.
Constructed(laser, radar) ==
    /\ is_initialized_ = FALSE
    /\ previous_timestamp_ = 0
    /\ use_laser_ = laser
    /\ use_radar_ = radar
    /\ x_ = Vec([k \in 1..n_x_ |-> Unset])
    /\ P_ = Identity(n_x_)
    /\ Xsig_pred_ = Vec([i \in 1..NSigma |-> Vec([k \in 1..n_x_ |-> Unset])])
    /\ nrec = 0
    /\ last = [meas |-> None, before |-> None, calls |-> << >>,
               delta_t |-> None, pred |-> None, upd |-> None]

----------------------------------------------------------------------------
(* The measurement records given to the filter *)

\* The number of records of a run.
MaxRecords == 3

\* The timestamp of the first record, in us.
FirstTimestamp == 10 ^ 6

\* The steps from one record's timestamp to the next, in us: a tenth of a
\* second back, one second on.
TimeSteps == {0 - 100000, 1000000}

\* The laser measurements (px, py): the origin, and (5, 1).
LaserMeasurements == {<<0, 0>>, <<5 * Scale, Scale>>}

\* The radar measurements (rho, phi, rho_dot): (5, 0, 0), and (5, -3, 2).
RadarMeasurements == {<<5 * Scale, 0, 0>>, <<5 * Scale, 0 - 3 * Scale, 2 * Scale>>}

\* The timestamps the next record may carry.
NextTimestamps(steps) ==
    IF is_initialized_ THEN {previous_timestamp_ + d : d \in steps}
    ELSE {FirstTimestamp}

\* The records of the two sensors.
Records(steps, lasers, radars) ==
    {[sensor_type_ |-> "LASER", timestamp_ |-> t, raw_measurements_ |-> z] :
        t \in NextTimestamps(steps), z \in lasers}
    \cup
    {[sensor_type_ |-> "RADAR", timestamp_ |-> t, raw_measurements_ |-> z] :
        t \in NextTimestamps(steps), z \in radars}

Init == Constructed(TRUE, TRUE)

Next ==
    /\ nrec < MaxRecords
    /\ \E m \in Records(TimeSteps, LaserMeasurements, RadarMeasurements) :
          ProcessMeasurement(m)

\* The filter as constructed (both sensors on), fed up to MaxRecords records.
Spec == Init /\ [][Next]_vars

\* The filter with the two switches of lines 18-22 set either way.
InitConfig == \E laser \in BOOLEAN : \E radar \in BOOLEAN : Constructed(laser, radar)

SpecConfig == InitConfig /\ [][Next]_vars

\* Longer runs of records in the order of their timestamps, a tenth of a
\* second or a second apart, of an object away from the origin.
MaxLongRecords == 4

LongTimeSteps == {100000, 1000000}

LongLaserMeasurements == {<<5 * Scale, Scale>>}

LongRadarMeasurements ==
    {<<5 * Scale, 0, 0>>, <<5 * Scale, 0 - 3 * Scale, 2 * Scale>>}

NextLong ==
    /\ nrec < MaxLongRecords
    /\ \E m \in Records(LongTimeSteps, LongLaserMeasurements,
                        LongRadarMeasurements) :
          ProcessMeasurement(m)

SpecLong == Init /\ [][NextLong]_vars

----------------------------------------------------------------------------
(* The claims *)

\* The last call was the first one of the object: it found it uninitialized.
FirstCall == nrec > 0 /\ ~last.before.is_initialized_

\* The last call was a later one: it predicted and updated.
LaterCall == nrec > 0 /\ last.before.is_initialized_

LastIsRadar == last.meas.sensor_type_ = "RADAR"

LastIsLaser == last.meas.sensor_type_ = "LASER"

\* a is a finite angle in (-pi, pi].
InHalfOpenPi(a) == FGt(a, 0 - M_PI) /\ FLe(a, M_PI)

\* Every entry of the matrix is finite.
Finite(m) == \A r \in 1..Len(m) : \A c \in 1..Len(m[r]) : m[r][c] # NaN

\* C1: the first record only initializes: the object becomes initialized,
\* the record's timestamp becomes the reference time, the only function
\* run is Initialize, P is still the 5x5 identity and the predicted sigma
\* points are the ones the constructor left.
C1_FirstRecordOnlyInitializes ==
    FirstCall =>
        /\ is_initialized_
        /\ previous_timestamp_ = last.meas.timestamp_
        /\ last.calls = <<"Initialize">>
        /\ P_ = Identity(n_x_)
        /\ P_ = last.before.P_
        /\ Xsig_pred_ = last.before.Xsig_pred_

C1_Witness == FirstCall /\ is_initialized_ /\ LastIsRadar

\* C2: every later record computes dt from its timestamp and the stored
\* one (in seconds, to the model's resolution), stores its timestamp, runs
\* Prediction once and then the one update of its sensor type, and the
\* update projects the sigma points that this Prediction produced from
\* the state before the call and this dt.
C2_PredictThenMatchingUpdate ==
    LaterCall =>
        /\ Abs(last.delta_t * (1000000 \div Scale)
               - (last.meas.timestamp_ - last.before.previous_timestamp_))
             <= (1000000 \div Scale) \div 2
        /\ previous_timestamp_ = last.meas.timestamp_
        /\ last.calls = <<"Prediction",
                          IF LastIsRadar THEN "UpdateRadar" ELSE "UpdateLidar">>
        /\ Xsig_pred_ = last.pred.Xsig_pred
        /\ Xsig_pred_ =
             SigmaPointPrediction(
                 AugmentedSigmaPoints(last.before.x_, last.before.P_).Xsig_aug,
                 last.delta_t)
        /\ last.upd.Zsig = IF LastIsRadar THEN RadarZsig(Xsig_pred_)
                           ELSE LidarZsig(Xsig_pred_)
        /\ Len(last.upd.z_diff) = IF LastIsRadar THEN 3 ELSE 2

C2_Witness ==
    /\ LaterCall /\ nrec = 3 /\ LastIsRadar
    /\ last.before.Xsig_pred_ # Xsig_pred_
    /\ Finite(last.before.Xsig_pred_)
    /\ Finite(Xsig_pred_)
    /\ Finite(<<x_>>)
    /\ last.meas.timestamp_ > last.before.previous_timestamp_

\* C3: a later record of a sensor that is switched off leaves x and P as
\* Prediction alone left them.
C3_DisabledSensorNotUpdated ==
    (LaterCall /\ (  (LastIsLaser /\ ~use_laser_)
                  \/ (LastIsRadar /\ ~use_radar_))) =>
        /\ x_ = last.pred.x
        /\ P_ = last.pred.P

\* C4: a later record whose timestamp is not greater than the stored one is
\* rejected: neither Prediction nor an update runs, and x, P stay.
C4_NonMonotonicRejected ==
    (LaterCall /\ last.meas.timestamp_ <= last.before.previous_timestamp_) =>
        /\ last.calls = << >>
        /\ x_ = last.before.x_
        /\ P_ = last.before.P_

\* C5: when the innovation covariance S of an update has no inverse, x and
\* P keep the values they had before the update step.
C5_SingularSKeepsState ==
    (LaterCall /\ ~Finite(Inverse(last.upd.S))) =>
        /\ x_ = last.pred.x
        /\ P_ = last.pred.P

\* C6: when the Cholesky factorization of the augmented covariance fails,
\* the cycle is skipped: x, P and the predicted sigma points stay.
C6_FailedCholeskySkipsCycle ==
    (LaterCall /\ last.pred.info # 0) =>
        /\ x_ = last.before.x_
        /\ P_ = last.before.P_
        /\ Xsig_pred_ = last.before.Xsig_pred_

\* C7: after the first record yaw and yaw rate are 0; after a laser record
\* the velocity is 0 too and the position is the measured one.
C7_InitialYawZero ==
    FirstCall =>
        /\ x_[4] = 0
        /\ x_[5] = 0
        /\ LastIsLaser =>
              /\ x_[3] = 0
              /\ x_[1] = last.meas.raw_measurements_[1]
              /\ x_[2] = last.meas.raw_measurements_[2]

\* C8: after every call that runs an update the stored yaw is in (-pi, pi].
C8_YawWrappedAfterUpdate == LaterCall => InHalfOpenPi(x_[4])

\* C9: the innovation of a radar update has its bearing in (-pi, pi].
C9_RadarInnovationWrapped ==
    (LaterCall /\ LastIsRadar /\ last.upd.z_diff[2] # NaN) =>
        InHalfOpenPi(last.upd.z_diff[2])

\* C10: every residual of a laser update is the plain difference of the two
\* observations: those that build S, those that build Tc, and the innovation.
C10_LidarResidualsPlain ==
    (LaterCall /\ LastIsLaser) =>
        /\ \A i \in 1..NSigma :
              /\ last.upd.S_resid[i] = VSub(last.upd.Zsig[i], last.upd.z_pred)
              /\ last.upd.Tc_resid[i] = VSub(last.upd.Zsig[i], last.upd.z_pred)
        /\ last.upd.z_diff = VSub(last.meas.raw_measurements_, last.upd.z_pred)

====
